---------------------------- MODULE Spec2Model ----------------------------
(***************************************************************************)
(* Blogicum (blog/views.py, blog/models.py, blog/forms.py, blog/admin.py). *)
(* The database tables are the state; every class-based view is one action *)
(* that handles one request: it runs the view's dispatch chain (mixins in  *)
(* MRO order, get_object, test_func), applies the mutation if any, and     *)
(* leaves the outward response in resp.  The mutating views are modelled   *)
(* for their POST submissions.  Post.title/text/image/location and         *)
(* Comment.created_at are content columns no view branches on; they are    *)
(* left out of the rows.                                                   *)
(***************************************************************************)
EXTENDS Integers, Sequences, FiniteSets

VARIABLES
    posts,        \* Post table: id -> row
    comments,     \* Comment table: id -> row
    categories,   \* Category table: slug -> row
    post_seq,     \* last id the Post table's auto-increment handed out
    comment_seq,  \* last id the Comment table's auto-increment handed out
    now,          \* timezone.now()
    resp          \* the request just handled and its response

vars == <<posts, comments, categories, post_seq, comment_seq, now, resp>>

(* ------------------------------ bounds -------------------------------- *)
MaxPosts == 2
MaxComments == 2
MaxTime == 1

(* ----------------------------- constants ------------------------------ *)
NUM_POST == 10

NULL == "null"
Anonymous == "anon"
Users == {"ann", "bob"}
Staff == {"bob"}
Actors == Users \cup {Anonymous}
Usernames == Users \cup {"zed"}
CategorySlugs == {"c1", "c2"}
SlugInputs == CategorySlugs \cup {"nope"}
PostIdInputs == 1..(MaxPosts + 1)
CommentIdInputs == 1..(MaxComments + 1)
Texts == {"hi", "yo"}
TextInputs == Texts \cup {""}

PostForms ==
    [category : CategorySlugs, is_published : BOOLEAN, pub_date : 0..MaxTime]
DraftForms ==
    [category : {"c1"}, is_published : BOOLEAN, pub_date : {0}]

(* --------------------------- table helpers ---------------------------- *)
Insert(table, id, row) ==
    [i \in DOMAIN table \cup {id} |-> IF i = id THEN row ELSE table[i]]

Remove(table, ids) ==
    [i \in DOMAIN table \ ids |-> table[i]]

Min(a, b) == IF a < b THEN a ELSE b

(* ------------------------------ users --------------------------------- *)
is_authenticated(actor) == actor \in Users

is_staff(actor) == actor \in Staff

(* ------------------- PostFilterMixin.get_posts ------------------------ *)
\* 'category__is_published': True joins through the foreign key: a post
\* whose category is NULL has no joined row and is filtered out.
PassesFiltersNoDate(id) ==
    /\ posts[id].is_published
    /\ posts[id].category # NULL
    /\ categories[posts[id].category].is_published

PassesFilters(id) ==
    /\ posts[id].pub_date <= now
    /\ posts[id].is_published
    /\ posts[id].category # NULL
    /\ categories[posts[id].category].is_published

get_posts_any_category(category) ==
    {id \in DOMAIN posts : PassesFilters(id)}

get_posts(category) ==
    {id \in DOMAIN posts :
        /\ PassesFilters(id)
        /\ category # NULL => posts[id].category = category}

(* ----------------------------- order_by ------------------------------- *)
\* An ORDER BY leaves rows with equal keys in any order: every ordering of
\* the rows that is descending in the key is a possible result (pub_date is
\* typed into the form, and two posts may carry the same one).
Orderings(ids) ==
    {s \in [1..Cardinality(ids) -> ids] :
        \A i, j \in 1..Cardinality(ids) : i # j => s[i] # s[j]}

OrderByPubDateDesc(ids) ==
    {s \in Orderings(ids) :
        \A i, j \in 1..Len(s) : i < j => posts[s[i]].pub_date >= posts[s[j]].pub_date}

\* created_at is the instant of the INSERT (auto_now_add).  The clock of the
\* model is coarser than that instant: of two posts created in the same tick
\* the one with the larger auto-increment id was created later.
CreatedBefore(a, b) ==
    \/ posts[a].created_at < posts[b].created_at
    \/ posts[a].created_at = posts[b].created_at /\ a < b

OrderByCreatedAtDesc(ids) ==
    {s \in Orderings(ids) :
        \A i, j \in 1..Len(s) : i < j => CreatedBefore(s[j], s[i])}

\* paginate_by = NUM_POST, first page
FirstPage(s) == SubSeq(s, 1, Min(Len(s), NUM_POST))

(* ----------------------------- responses ------------------------------ *)
Response(op, actor, status) ==
    [op |-> op, actor |-> actor, status |-> status,
     post_id |-> 0, comment_id |-> 0, name |-> "", text |-> "",
     obj |-> 0, target |-> 0, list |-> <<>>]

NoRequest == Response("none", Anonymous, "none")

DbUnchanged == UNCHANGED <<posts, comments, categories, post_seq, comment_seq, now>>

\* Each request is handled on its own, start to end: a view runs when no
\* response is outstanding, and Respond hands the response over.
Idle == resp = NoRequest

Respond ==
    /\ ~Idle
    /\ resp' = NoRequest
    /\ DbUnchanged

Init ==
    /\ posts = <<>>
    /\ comments = <<>>
    /\ categories = [c \in CategorySlugs |-> [is_published |-> TRUE]]
    /\ post_seq = 0
    /\ comment_seq = 0
    /\ now = 0
    /\ resp = NoRequest

(* ------------------------------ the clock ----------------------------- *)
Tick ==
    /\ Idle
    /\ now < MaxTime
    /\ now' = now + 1
    /\ UNCHANGED <<posts, comments, categories, post_seq, comment_seq, resp>>

(* ------------------ admin site: the Category table -------------------- *)
AdminSetCategoryPublished(c, flag) ==
    /\ Idle
    /\ c \in DOMAIN categories
    /\ categories[c].is_published # flag
    /\ categories' = [categories EXCEPT ![c].is_published = flag]
    /\ UNCHANGED <<posts, comments, post_seq, comment_seq, now, resp>>

\* Post.category is on_delete=SET_NULL
AdminDeleteCategory(c) ==
    /\ Idle
    /\ c \in DOMAIN categories
    /\ categories' = Remove(categories, {c})
    /\ posts' = [id \in DOMAIN posts |->
                    IF posts[id].category = c
                    THEN [posts[id] EXCEPT !.category = NULL]
                    ELSE posts[id]]
    /\ UNCHANGED <<comments, post_seq, comment_seq, now, resp>>

(* ---------------------------- PostListView ---------------------------- *)
PostListView(actor) ==
    /\ Idle
    /\ \E s \in OrderByCreatedAtDesc(get_posts(NULL)) :
          resp' = [Response("post_list", actor, "ok") EXCEPT !.list = FirstPage(s)]
    /\ DbUnchanged

(* -------------------------- CategoryPostsView ------------------------- *)
PublishedCategory(slug) ==
    slug \in DOMAIN categories /\ categories[slug].is_published

CategoryPostsView(actor, slug) ==
    /\ Idle
    /\ IF ~PublishedCategory(slug)
       THEN resp' = [Response("category_posts", actor, "not_found") EXCEPT !.name = slug]
       ELSE \E s \in OrderByPubDateDesc(get_posts(slug)) :
               resp' = [Response("category_posts", actor, "ok") EXCEPT
                           !.name = slug, !.list = FirstPage(s)]
    /\ DbUnchanged

(* --------------------------- PostDetailView --------------------------- *)
PostDetailView(actor, post_id) ==
    /\ Idle
    /\ IF post_id \in get_posts(NULL)
       THEN resp' = [Response("post_detail", actor, "ok") EXCEPT
                        !.post_id = post_id, !.obj = post_id]
       ELSE resp' = [Response("post_detail", actor, "not_found") EXCEPT
                        !.post_id = post_id]
    /\ DbUnchanged

(* --------------------------- PostCreateView --------------------------- *)
\* PostCreateForm: category is a required choice among the Category rows.
PostFormValid(form) == form.category \in DOMAIN categories

PostCreateView(actor, form) ==
    Idle /\
    IF ~is_authenticated(actor)
    THEN /\ resp' = Response("post_create", actor, "login")
         /\ DbUnchanged
    ELSE IF ~PostFormValid(form)
    THEN /\ resp' = Response("post_create", actor, "invalid")
         /\ DbUnchanged
    ELSE /\ post_seq < MaxPosts
         /\ post_seq' = post_seq + 1
         /\ posts' = Insert(posts, post_seq + 1,
                            [author |-> actor,
                             category |-> form.category,
                             is_published |-> form.is_published,
                             pub_date |-> form.pub_date,
                             created_at |-> now])
         /\ resp' = [Response("post_create", actor, "redirect") EXCEPT
                        !.post_id = post_seq + 1, !.name = actor]
         /\ UNCHANGED <<comments, categories, comment_seq, now>>

(* --------------------------- PostUpdateView --------------------------- *)
PostUpdateTestFunc(actor, post_id) ==
    is_authenticated(actor) /\ posts[post_id].author = actor

\* UserPassesTestMixin.handle_no_permission
NoPermission(actor) == IF is_authenticated(actor) THEN "forbidden" ELSE "login"

PostUpdateView(actor, post_id, form) ==
    Idle /\
    LET r == [Response("post_update", actor, "none") EXCEPT !.post_id = post_id] IN
    IF post_id \notin DOMAIN posts
    THEN /\ resp' = [r EXCEPT !.status = "not_found"]
         /\ DbUnchanged
    ELSE IF ~PostUpdateTestFunc(actor, post_id)
    THEN /\ resp' = [r EXCEPT !.status = NoPermission(actor)]
         /\ DbUnchanged
    ELSE IF ~PostFormValid(form)
    THEN /\ resp' = [r EXCEPT !.status = "invalid"]
         /\ DbUnchanged
    ELSE /\ posts' = [posts EXCEPT ![post_id] =
                        [@ EXCEPT !.category = form.category,
                                  !.is_published = form.is_published,
                                  !.pub_date = form.pub_date]]
         /\ resp' = [r EXCEPT !.status = "redirect", !.target = post_id]
         /\ UNCHANGED <<comments, categories, post_seq, comment_seq, now>>

(* --------------------------- PostDeleteView --------------------------- *)
PostDeleteTestFuncAnyUser(actor, post_id) ==
    is_authenticated(actor)

PostDeleteTestFunc(actor, post_id) ==
    posts[post_id].author = actor \/ is_staff(actor)

\* Comment.post is on_delete=CASCADE
PostDeleteView(actor, post_id) ==
    Idle /\
    LET r == [Response("post_delete", actor, "none") EXCEPT !.post_id = post_id] IN
    IF post_id \notin DOMAIN posts
    THEN /\ resp' = [r EXCEPT !.status = "not_found"]
         /\ DbUnchanged
    ELSE IF ~PostDeleteTestFunc(actor, post_id)
    THEN /\ resp' = [r EXCEPT !.status = NoPermission(actor)]
         /\ DbUnchanged
    ELSE /\ posts' = Remove(posts, {post_id})
         /\ comments' = Remove(comments,
                               {c \in DOMAIN comments : comments[c].post = post_id})
         /\ resp' = [r EXCEPT !.status = "redirect", !.name = actor]
         /\ UNCHANGED <<categories, post_seq, comment_seq, now>>

(* ----------------------------- ProfileView ---------------------------- *)
ProfileView(actor, username) ==
    /\ Idle
    /\ LET r == [Response("profile", actor, "none") EXCEPT !.name = username] IN
       IF ~is_authenticated(actor)
       THEN resp' = [r EXCEPT !.status = "login"]
       ELSE IF username \notin Users
       THEN resp' = [r EXCEPT !.status = "not_found"]
       ELSE \E s \in OrderByCreatedAtDesc({id \in DOMAIN posts : posts[id].author = username}) :
               resp' = [r EXCEPT !.status = "ok", !.list = FirstPage(s)]
    /\ DbUnchanged

(* -------------------------- CommentCreateView ------------------------- *)
\* CommentForm: text is a required field.
CommentFormValid(text) == text # ""

NewCommentByPostAuthor(actor, post_id, text) ==
    [post |-> post_id, author |-> posts[post_id].author, text |-> text]

NewComment(actor, post_id, text) ==
    [post |-> post_id, author |-> actor, text |-> text]

CommentCreateView(actor, post_id, text) ==
    Idle /\
    LET r == [Response("comment_create", actor, "none") EXCEPT
                 !.post_id = post_id, !.text = text] IN
    IF post_id \notin DOMAIN posts
    THEN /\ resp' = [r EXCEPT !.status = "not_found"]
         /\ DbUnchanged
    ELSE IF ~is_authenticated(actor)
    THEN /\ resp' = [r EXCEPT !.status = "login"]
         /\ DbUnchanged
    ELSE IF ~CommentFormValid(text)
    THEN /\ resp' = [r EXCEPT !.status = "invalid"]
         /\ DbUnchanged
    ELSE /\ comment_seq < MaxComments
         /\ comment_seq' = comment_seq + 1
         /\ comments' = Insert(comments, comment_seq + 1, NewComment(actor, post_id, text))
         /\ resp' = [r EXCEPT !.status = "redirect", !.comment_id = comment_seq + 1,
                              !.target = post_id]
         /\ UNCHANGED <<posts, categories, post_seq, now>>

(* -------------------------- CommentUpdateView ------------------------- *)
CommentTestFuncAlways(actor, comment_id) ==
    TRUE

CommentTestFunc(actor, comment_id) ==
    actor = comments[comment_id].author

\* LoginRequiredMixin runs before UserPassesTestMixin and get_object; the
\* post_id of the path is not read.
CommentUpdateView(actor, post_id, comment_id, text) ==
    Idle /\
    LET r == [Response("comment_update", actor, "none") EXCEPT
                 !.post_id = post_id, !.comment_id = comment_id, !.text = text] IN
    IF ~is_authenticated(actor)
    THEN /\ resp' = [r EXCEPT !.status = "login"]
         /\ DbUnchanged
    ELSE IF comment_id \notin DOMAIN comments
    THEN /\ resp' = [r EXCEPT !.status = "not_found"]
         /\ DbUnchanged
    ELSE IF ~CommentTestFunc(actor, comment_id)
    THEN /\ resp' = [r EXCEPT !.status = "forbidden"]
         /\ DbUnchanged
    ELSE IF ~CommentFormValid(text)
    THEN /\ resp' = [r EXCEPT !.status = "invalid"]
         /\ DbUnchanged
    ELSE /\ comments' = [comments EXCEPT ![comment_id] =
                            [@ EXCEPT !.text = text, !.author = actor]]
         /\ resp' = [r EXCEPT !.status = "redirect",
                              !.target = comments[comment_id].post]
         /\ UNCHANGED <<posts, categories, post_seq, comment_seq, now>>

(* -------------------------- CommentDeleteView ------------------------- *)
DeleteCommentThread(comment_id) ==
    Remove(comments,
           {c \in DOMAIN comments : comments[c].post = comments[comment_id].post})

DeleteComment(comment_id) == Remove(comments, {comment_id})

CommentDeleteView(actor, post_id, comment_id) ==
    Idle /\
    LET r == [Response("comment_delete", actor, "none") EXCEPT
                 !.post_id = post_id, !.comment_id = comment_id] IN
    IF ~is_authenticated(actor)
    THEN /\ resp' = [r EXCEPT !.status = "login"]
         /\ DbUnchanged
    ELSE IF comment_id \notin DOMAIN comments
    THEN /\ resp' = [r EXCEPT !.status = "not_found"]
         /\ DbUnchanged
    ELSE IF ~CommentTestFunc(actor, comment_id)
    THEN /\ resp' = [r EXCEPT !.status = "forbidden"]
         /\ DbUnchanged
    ELSE /\ comments' = DeleteComment(comment_id)
         /\ resp' = [r EXCEPT !.status = "redirect",
                              !.target = comments[comment_id].post]
         /\ UNCHANGED <<posts, categories, post_seq, comment_seq, now>>

(* --------------------------- specifications --------------------------- *)
\* The whole site.
Next ==
    \/ Respond
    \/ Tick
    \/ \E c \in CategorySlugs, flag \in BOOLEAN : AdminSetCategoryPublished(c, flag)
    \/ \E c \in CategorySlugs : AdminDeleteCategory(c)
    \/ \E a \in Actors : PostListView(a)
    \/ \E a \in Actors, slug \in SlugInputs : CategoryPostsView(a, slug)
    \/ \E a \in Actors, id \in PostIdInputs : PostDetailView(a, id)
    \/ \E a \in Actors, form \in PostForms : PostCreateView(a, form)
    \/ \E a \in Actors, id \in PostIdInputs, form \in PostForms : PostUpdateView(a, id, form)
    \/ \E a \in Actors, id \in PostIdInputs : PostDeleteView(a, id)
    \/ \E a \in Actors, u \in Usernames : ProfileView(a, u)
    \/ \E a \in Actors, id \in PostIdInputs, t \in TextInputs : CommentCreateView(a, id, t)
    \/ \E a \in Actors, id \in PostIdInputs, c \in CommentIdInputs, t \in TextInputs :
          CommentUpdateView(a, id, c, t)
    \/ \E a \in Actors, id \in PostIdInputs, c \in CommentIdInputs :
          CommentDeleteView(a, id, c)

Spec == Init /\ [][Next]_vars

\* Publishing and reading: posts are written with every form, categories
\* are hidden and deleted, the clock runs, and the four read views answer.
NextRead ==
    \/ Respond
    \/ Tick
    \/ \E c \in CategorySlugs, flag \in BOOLEAN : AdminSetCategoryPublished(c, flag)
    \/ \E c \in CategorySlugs : AdminDeleteCategory(c)
    \/ \E a \in Actors : PostListView(a)
    \/ \E a \in Actors, slug \in SlugInputs : CategoryPostsView(a, slug)
    \/ \E a \in Actors, id \in PostIdInputs : PostDetailView(a, id)
    \/ \E a \in Actors, form \in PostForms : PostCreateView(a, form)
    \/ \E a \in Actors, u \in Usernames : ProfileView(a, u)

SpecRead == Init /\ [][NextRead]_vars

\* Editing and commenting: posts are written published or as drafts, and
\* every mutating view answers every actor.
NextWrite ==
    \/ Respond
    \/ \E a \in Actors, id \in PostIdInputs : PostDetailView(a, id)
    \/ \E a \in Actors, form \in DraftForms : PostCreateView(a, form)
    \/ \E a \in Actors, id \in PostIdInputs, form \in DraftForms : PostUpdateView(a, id, form)
    \/ \E a \in Actors, id \in PostIdInputs : PostDeleteView(a, id)
    \/ \E a \in Actors, id \in PostIdInputs, t \in TextInputs : CommentCreateView(a, id, t)
    \/ \E a \in Actors, id \in PostIdInputs, c \in CommentIdInputs, t \in TextInputs :
          CommentUpdateView(a, id, c, t)
    \/ \E a \in Actors, id \in PostIdInputs, c \in CommentIdInputs :
          CommentDeleteView(a, id, c)

SpecWrite == Init /\ [][NextWrite]_vars

(* ------------------------------ properties ---------------------------- *)
\* The public-visibility predicate as the specification words it.
PublicPost(id) ==
    /\ id \in DOMAIN posts
    /\ posts[id].is_published
    /\ posts[id].category \in DOMAIN categories
    /\ categories[posts[id].category].is_published
    /\ posts[id].pub_date <= now

\* The rejection of a request: Forbidden, or the redirect to login for an
\* unauthenticated actor.
Rejected(r) ==
    r.status = IF r.actor = Anonymous THEN "login" ELSE "forbidden"

\* C1: for an anonymous viewer, post detail returns the post exactly when it
\* is published, has a published category and its pub_date has passed; in
\* every other case, a deleted category and an unknown id included, the
\* outcome is NotFound.
C1_AnonymousDetail ==
    (resp.op = "post_detail" /\ resp.actor = Anonymous) =>
        IF PublicPost(resp.post_id)
        THEN resp.status = "ok" /\ resp.obj = resp.post_id
        ELSE resp.status = "not_found"

C1_Witness ==
    /\ resp.op = "post_detail" /\ resp.actor = Anonymous
    /\ resp.status = "not_found"
    /\ resp.post_id \in DOMAIN posts
    /\ posts[resp.post_id].category = NULL
    /\ posts[resp.post_id].is_published
    /\ posts[resp.post_id].pub_date <= now

\* C2: post detail returns the post to its author, whatever the publication
\* flags and the pub_date.
C2_AuthorSeesOwnPost ==
    (/\ resp.op = "post_detail"
     /\ resp.post_id \in DOMAIN posts
     /\ resp.actor = posts[resp.post_id].author) =>
        (resp.status = "ok" /\ resp.obj = resp.post_id)

\* C3: the category listing of slug C holds only posts of category C that
\* pass the public-visibility predicate; when C is no published category the
\* outcome is NotFound and not a listing.
C3_CategoryListing ==
    resp.op = "category_posts" =>
        IF resp.name \in DOMAIN categories /\ categories[resp.name].is_published
        THEN /\ resp.status = "ok"
             /\ \A i \in 1..Len(resp.list) :
                   /\ PublicPost(resp.list[i])
                   /\ posts[resp.list[i]].category = resp.name
        ELSE resp.status = "not_found" /\ resp.list = <<>>

C3_Witness ==
    /\ resp.op = "category_posts" /\ resp.status = "ok"
    /\ Len(resp.list) = 1
    /\ \E id \in DOMAIN posts :
          /\ PublicPost(id)
          /\ posts[id].category # resp.name

\* C4: update post, update comment and delete comment by an actor who is not
\* the author are rejected (Forbidden, or the login redirect when
\* unauthenticated) and leave every post and comment as stored.
C4_NonAuthorCannotModify ==
    [][LET r == resp' IN
       /\ (/\ r.op = "post_update"
           /\ r.post_id \in DOMAIN posts
           /\ posts[r.post_id].author # r.actor) =>
              (Rejected(r) /\ posts' = posts /\ comments' = comments)
       /\ (/\ r.op \in {"comment_update", "comment_delete"}
           /\ r.comment_id \in DOMAIN comments
           /\ comments[r.comment_id].author # r.actor) =>
              (Rejected(r) /\ posts' = posts /\ comments' = comments)]_vars

C4_Witness ==
    /\ resp.op = "comment_update" /\ resp.status = "forbidden"
    /\ resp.comment_id \in DOMAIN comments
    /\ resp.text \in Texts
    /\ comments[resp.comment_id].text # resp.text
    /\ comments[resp.comment_id].author # resp.actor

\* C5 as claimed: a delete-post request by anyone but the author is rejected
\* and the post row still exists.
C5_AnyNonAuthorCannotDelete ==
    [][LET r == resp' IN
       (/\ r.op = "post_delete"
        /\ r.post_id \in DOMAIN posts
        /\ posts[r.post_id].author # r.actor) =>
           (Rejected(r) /\ posts' = posts)]_vars

\* C5 as amended: a delete-post request by anyone who is neither the author
\* nor staff is rejected and the post row, with its comments, still exists.
C5_NonStaffNonAuthorCannotDelete ==
    [][LET r == resp' IN
       (/\ r.op = "post_delete"
        /\ r.post_id \in DOMAIN posts
        /\ posts[r.post_id].author # r.actor
        /\ r.actor \notin Staff) =>
           (Rejected(r) /\ posts' = posts /\ comments' = comments)]_vars

C5_Witness ==
    /\ resp.op = "post_delete" /\ resp.status = "forbidden"
    /\ resp.actor \in Users \ Staff
    /\ resp.post_id \in DOMAIN posts
    /\ posts[resp.post_id].author # resp.actor

\* C6: a successful delete-comment request removes exactly the comment named
\* by comment_id: every other comment and every post is unchanged, whatever
\* post_id the path carries.
C6_DeleteExactlyOneComment ==
    [][LET r == resp' IN
       (r.op = "comment_delete" /\ r.status = "redirect") =>
           /\ r.comment_id \in DOMAIN comments
           /\ DOMAIN comments' = DOMAIN comments \ {r.comment_id}
           /\ \A c \in DOMAIN comments' : comments'[c] = comments[c]
           /\ posts' = posts]_vars

\* The deleted comment's post (the redirect target) still has a comment, and
\* the path named another post.
C6_Witness ==
    /\ resp.op = "comment_delete" /\ resp.status = "redirect"
    /\ resp.comment_id \notin DOMAIN comments
    /\ resp.post_id # resp.target
    /\ resp.target \in DOMAIN posts
    /\ \E c \in DOMAIN comments : comments[c].post = resp.target

\* C7: a create-comment request for a post_id that resolves to no post is
\* NotFound for every actor and stores nothing; for an existing post and an
\* authenticated actor the submitted text is stored as one new comment with
\* author = actor and post = that post.
C7_CommentCreate ==
    [][LET r == resp' IN
       r.op = "comment_create" =>
           /\ r.post_id \notin DOMAIN posts =>
                 (r.status = "not_found" /\ comments' = comments)
           /\ (r.post_id \in DOMAIN posts /\ r.actor \in Users /\ r.text # "") =>
                 /\ r.status = "redirect"
                 /\ r.comment_id \notin DOMAIN comments
                 /\ DOMAIN comments' = DOMAIN comments \cup {r.comment_id}
                 /\ comments'[r.comment_id] =
                       [post |-> r.post_id, author |-> r.actor, text |-> r.text]
                 /\ \A c \in DOMAIN comments : comments'[c] = comments[c]
           /\ posts' = posts]_vars

C7_Witness ==
    /\ resp.op = "comment_create" /\ resp.status = "not_found"
    /\ resp.actor = Anonymous
    /\ resp.post_id \notin DOMAIN posts
    /\ DOMAIN posts # {}

\* C8: to a viewer who is not the author, a post that exists but fails the
\* visibility predicate answers NotFound, as an unknown id does, on post
\* detail, update post, delete post and create comment, and nothing is
\* changed.
C8_HiddenPostLooksAbsent ==
    [][LET r == resp' IN
       (/\ r.op \in {"post_detail", "post_update", "post_delete", "comment_create"}
        /\ r.post_id \in DOMAIN posts
        /\ ~PublicPost(r.post_id)
        /\ posts[r.post_id].author # r.actor) =>
           (r.status = "not_found" /\ posts' = posts /\ comments' = comments)]_vars

\* C9: the main index, the category listing and the profile listing are in
\* pub_date descending order.
C9_ListingsByPubDateDesc ==
    (resp.op \in {"post_list", "category_posts", "profile"} /\ resp.status = "ok") =>
        \A i, j \in 1..Len(resp.list) :
            i < j => posts[resp.list[i]].pub_date >= posts[resp.list[j]].pub_date

\* C10: the profile of an existing username is returned, with all the posts
\* of that user, to every viewer, the anonymous one included; an unknown
\* username is NotFound.
C10_ProfileIsPublic ==
    resp.op = "profile" =>
        IF resp.name \in Users
        THEN /\ resp.status = "ok"
             /\ {resp.list[i] : i \in 1..Len(resp.list)} =
                   {id \in DOMAIN posts : posts[id].author = resp.name}
        ELSE resp.status = "not_found"

=============================================================================
